---- MODULE Spec2Model ----
(***************************************************************************)
(* Model of homeassistant/components/foscam/camera.py: the HassFoscamCamera *)
(* entity (cached motion flag, discovered RTSP port) in front of a camera   *)
(* session whose calls return a status (0 = success) and a payload, or      *)
(* raise.  One controller, its activation (async_added_to_hass), the        *)
(* synchronous operations, and NumInv concurrent async_perform_ptz          *)
(* coroutines on the event loop.                                            *)
(***************************************************************************)
EXTENDS Integers, Sequences, FiniteSets, TLC

\* ---------------------------------------------------------------- bounds
NumInv == 2        \* concurrent async_perform_ptz coroutines
MaxTravel == 1     \* largest travel_time, in clock ticks

\* ------------------------------------------------------- Python optionals
None == <<>>
Some(x) == <<x>>

\* Python truthiness of an optional integer: None and 0 are falsy.
Truthy(v) == v # None /\ v[1] # 0

\* Python `a or b`.
PyOr(a, b) == IF Truthy(a) THEN a ELSE b

\* ---------------------------------------------------------- configuration
STREAMS == {"Main", "Sub"}
Name == "cam"
Username == "u"
Password == "p"
Host == "host"

DIR_UP == "up"
DIR_DOWN == "down"
DIR_LEFT == "left"
DIR_RIGHT == "right"
DIR_TOPLEFT == "top_left"
DIR_TOPRIGHT == "top_right"
DIR_BOTTOMLEFT == "bottom_left"
DIR_BOTTOMRIGHT == "bottom_right"

Directions ==
    {DIR_UP, DIR_DOWN, DIR_LEFT, DIR_RIGHT,
     DIR_TOPLEFT, DIR_TOPRIGHT, DIR_BOTTOMLEFT, DIR_BOTTOMRIGHT}

MOVEMENT_ATTRS ==
    (DIR_UP :> "ptz_move_up") @@ (DIR_DOWN :> "ptz_move_down") @@
    (DIR_LEFT :> "ptz_move_left") @@ (DIR_RIGHT :> "ptz_move_right") @@
    (DIR_TOPLEFT :> "ptz_move_top_left") @@
    (DIR_TOPRIGHT :> "ptz_move_top_right") @@
    (DIR_BOTTOMLEFT :> "ptz_move_bottom_left") @@
    (DIR_BOTTOMRIGHT :> "ptz_move_bottom_right")

TravelTimes == 0..MaxTravel
Invocations == 1..NumInv

\* ------------------------------------------------------------ the session
\* What a session call can do: return (status, payload) or raise.
Statuses == {0, 1, -8}
SessionErrors == {"TypeError", "ConnectionError"}

Returns(payloads) ==
    [kind : {"ret"}, status : Statuses, payload : payloads, exc : {None}]
Raises ==
    [kind : {"raise"}, status : {0}, payload : {None}, exc : {Some(e) : e \in SessionErrors}]
Outcomes(payloads) == Returns(payloads) \cup Raises

\* get_motion_detect_config payload: the enabled flag.
MotionFlags == {0, 1, 2}

\* get_port_info payload: a dict with optional rtspPort / mediaPort keys, or
\* something that is no dict.
PortInfos ==
    [isDict : {TRUE}, rtspPort : {None, Some(0), Some(554)}, mediaPort : {None, Some(888)}]
    \cup [isDict : {FALSE}, rtspPort : {None}, mediaPort : {None}]

\* snap_picture_2 payload: the image, or nothing.
Images == {Some("jpg1"), Some("jpg2")}
SnapPayloads == Images \cup {None}

VARIABLES
    stream,          \* self._stream
    motion_status,   \* self._motion_status
    rtsp_port,       \* self._rtsp_port
    initPc,          \* position of async_added_to_hass
    queries,         \* session queries async_added_to_hass has issued
    portReply,       \* the payload of a get_port_info that returned status 0
    inv,             \* the async_perform_ptz coroutines
    lastStep         \* what the latest step did: calls, logs, result, fault

vars == <<stream, motion_status, rtsp_port, initPc, queries, portReply, inv, lastStep>>

IdleInv == [pc |-> "idle", travel |-> 0, elapsed |-> 0]

\* A log record: level, format string, and the arguments that fill it.
Log(level, fmt, movement, name, ret) ==
    [level |-> level, fmt |-> fmt, movement |-> movement, name |-> name, ret |-> ret]

Step(op, i, arg, calls, o, logs, result, fault) ==
    [op |-> op, inv |-> i, arg |-> arg, calls |-> calls, outcome |-> o,
     logs |-> logs, result |-> result, fault |-> fault]

NoOutcome == [kind |-> "none", status |-> 0, payload |-> None, exc |-> None]

\* HassFoscamCamera.__init__
Init ==
    /\ stream \in STREAMS
    /\ motion_status = FALSE
    /\ rtsp_port = None
    /\ initPc = "motion"
    /\ queries = [motion |-> 0, port |-> 0]
    /\ portReply = None
    /\ inv = [i \in Invocations |-> IdleInv]
    /\ lastStep = Step("__init__", 0, None, <<>>, NoOutcome, <<>>, None, None)

Ok(o) == o.kind = "ret" /\ o.status = 0
Failed(o) == o.kind = "ret" /\ o.status # 0
Raised(o) == o.kind = "raise"

\* ------------------------------------------------- async_added_to_hass
\* Lines 134-140: the motion flag after the get_motion_detect_config result.
AddedMotionStatus(o, cur) ==
    IF Ok(o) THEN o.payload = 1 ELSE cur

AddedMotionLogs(o) ==
    IF Failed(o)
    THEN <<Log("error", "Error getting motion detection status of %s: %s",
               None, Name, Some(o.status))>>
    ELSE <<>>

\* Line 151: response.get("rtspPort") or response.get("mediaPort")
PortOf(response) == PyOr(response.rtspPort, response.mediaPort)

\* Line 151 on a response that is no dict: AttributeError.
AddedPortFault(o) ==
    IF Raised(o) THEN o.exc
    ELSE IF Ok(o) /\ ~o.payload.isDict THEN Some("AttributeError")
    ELSE None

\* Lines 147-151: the port after the get_port_info result.
AddedRtspPort(o, cur) ==
    IF Ok(o) /\ o.payload.isDict THEN PortOf(o.payload) ELSE cur

AddedPortLogs(o) ==
    IF Failed(o)
    THEN <<Log("error", "Error getting RTSP port of %s: %s", None, Name, Some(o.status))>>
    ELSE <<>>

AddedGetMotion ==
    /\ initPc = "motion"
    /\ \E o \in Outcomes(MotionFlags) :
        /\ motion_status' = AddedMotionStatus(o, motion_status)
        /\ initPc' = IF Raised(o) THEN "fault" ELSE "port"
        /\ lastStep' = Step("added_motion", 0, None, <<"get_motion_detect_config">>, o,
                            AddedMotionLogs(o), None, o.exc)
    /\ queries' = [queries EXCEPT !.motion = @ + 1]
    /\ UNCHANGED <<stream, rtsp_port, portReply, inv>>

AddedGetPort ==
    /\ initPc = "port"
    /\ \E o \in Outcomes(PortInfos) :
        /\ rtsp_port' = AddedRtspPort(o, rtsp_port)
        /\ portReply' = IF Ok(o) THEN Some(o.payload) ELSE None
        /\ initPc' = IF AddedPortFault(o) # None THEN "fault" ELSE "done"
        /\ lastStep' = Step("added_port", 0, None, <<"get_port_info">>, o,
                            AddedPortLogs(o), None, AddedPortFault(o))
    /\ queries' = [queries EXCEPT !.port = @ + 1]
    /\ UNCHANGED <<stream, motion_status, inv>>

\* --------------------------------------------------------- camera_image
SnapOutcomes ==
    {o \in Outcomes(SnapPayloads) : Ok(o) => o.payload \in Images}

\* Variant: the payload is returned whatever the status.
CameraImageResultUnchecked(o) ==
    IF Raised(o) THEN None ELSE o.payload

\* Lines 162-166.
CameraImageResult(o) ==
    IF Raised(o) THEN None
    ELSE IF o.status # 0 THEN None
    ELSE o.payload

CameraImage ==
    /\ \E o \in SnapOutcomes :
        lastStep' = Step("camera_image", 0, None, <<"snap_picture_2">>, o, <<>>,
                         CameraImageResult(o), o.exc)
    /\ UNCHANGED <<stream, motion_status, rtsp_port, initPc, queries, portReply, inv>>

\* ------------------------------------- supported_features, stream_source
SUPPORT_STREAM == "SUPPORT_STREAM"

\* Variant: streaming is advertised once the port query was issued.
SupportedFeaturesEager ==
    IF queries.port > 0 THEN Some(SUPPORT_STREAM) ELSE None

\* Lines 171-174.
SupportedFeatures ==
    IF Truthy(rtsp_port) THEN Some(SUPPORT_STREAM) ELSE None

\* Variant: host and credentials swapped around the "@".
StreamUrlSwapped(username, password, host, port, channel) ==
    "rtsp://" \o host \o "@" \o username \o ":" \o password \o ":"
        \o ToString(port) \o "/video" \o channel

\* Line 179: the f-string.
StreamUrl(username, password, host, port, channel) ==
    "rtsp://" \o username \o ":" \o password \o "@" \o host \o ":"
        \o ToString(port) \o "/video" \o channel

\* Lines 178-181.
StreamSourceResult ==
    IF Truthy(rtsp_port)
    THEN Some(StreamUrl(Username, Password, Host, rtsp_port[1], stream))
    ELSE None

StreamSource ==
    /\ lastStep' = Step("stream_source", 0, None, <<>>, NoOutcome, <<>>,
                        StreamSourceResult, None)
    /\ UNCHANGED <<stream, motion_status, rtsp_port, initPc, queries, portReply, inv>>

\* ------------------------- enable_motion_detection, disable_motion_detection
\* except TypeError: every other exception leaves the method.
MotionFault(o) ==
    IF Raised(o) /\ o.exc # Some("TypeError") THEN o.exc ELSE None

MotionLogs(o) ==
    IF Raised(o) /\ o.exc = Some("TypeError")
    THEN <<Log("debug", "Communication problem", None, None, None)>>
    ELSE <<>>

\* Lines 191-196.
EnabledStatus(o, cur) ==
    IF Raised(o) THEN cur
    ELSE IF o.status # 0 THEN cur
    ELSE TRUE

\* Variant: the flag is cleared before the status is looked at.
DisabledStatusUnchecked(o, cur) ==
    IF Raised(o) THEN cur ELSE FALSE

\* Lines 203-208.
DisabledStatus(o, cur) ==
    IF Raised(o) THEN cur
    ELSE IF o.status # 0 THEN cur
    ELSE FALSE

EnableMotionDetection ==
    /\ \E o \in Outcomes({None}) :
        /\ motion_status' = EnabledStatus(o, motion_status)
        /\ lastStep' = Step("enable_motion_detection", 0, Some(TRUE),
                            <<"enable_motion_detection">>, o, MotionLogs(o), None,
                            MotionFault(o))
    /\ UNCHANGED <<stream, rtsp_port, initPc, queries, portReply, inv>>

DisableMotionDetection ==
    /\ \E o \in Outcomes({None}) :
        /\ motion_status' = DisabledStatus(o, motion_status)
        /\ lastStep' = Step("disable_motion_detection", 0, Some(FALSE),
                            <<"disable_motion_detection">>, o, MotionLogs(o), None,
                            MotionFault(o))
    /\ UNCHANGED <<stream, rtsp_port, initPc, queries, portReply, inv>>

\* ------------------------------------------------------ async_perform_ptz
\* Line 216: the session method the movement selects.
MovementFunction(movement) == MOVEMENT_ATTRS[movement]

\* Lines 214, 220-221.
PtzMoveLogs(movement, o) ==
    <<Log("debug", "PTZ action '%s' on %s", Some(movement), Name, None)>>
    \o (IF Failed(o)
        THEN <<Log("error", "Error moving %s '%s': %s", Some(movement), Name,
                   Some(o.status))>>
        ELSE <<>>)

\* Variant: the return after a failed move is missing.
AfterMoveNoReturn(o, travel_time) ==
    IF Raised(o) THEN IdleInv
    ELSE [pc |-> "wait", travel |-> travel_time, elapsed |-> 0]

\* Lines 220-224: return on a failed move, otherwise start the sleep.
AfterMove(o, travel_time) ==
    IF Ok(o)
    THEN [pc |-> "wait", travel |-> travel_time, elapsed |-> 0]
    ELSE IdleInv

\* Line 224: asyncio.sleep(travel_time) resumes once travel_time has passed.
SleepOver(r) == r.elapsed >= r.travel

\* Variant: the error log of a failed stop is missing.
PtzStopLogsSilent(o) == <<>>

\* Lines 230-231.
PtzStopLogs(o) ==
    IF Failed(o)
    THEN <<Log("error", "Error stopping movement on '%s': %s", None, Name,
               Some(o.status))>>
    ELSE <<>>

\* Variant: a failed stop is retried until it succeeds.
AfterStopRetry(o, r) == IF Failed(o) THEN r ELSE IdleInv

\* Lines 226-232: the coroutine ends after ptz_stop_run, whatever it gave.
AfterStop(o, r) == IdleInv

\* Variant: a lock admits one async_perform_ptz at a time.
MayStartLocked(i) == \A j \in Invocations : inv[j].pc = "idle"

\* Whether coroutine i may enter async_perform_ptz: nothing excludes it.
MayStart(i) == inv[i].pc = "idle"

PtzMove(i) ==
    /\ MayStart(i)
    /\ \E movement \in Directions, travel_time \in TravelTimes, o \in Outcomes({None}) :
        /\ inv' = [inv EXCEPT ![i] = AfterMove(o, travel_time)]
        /\ lastStep' = Step("ptz_move", i, Some(movement), <<MovementFunction(movement)>>,
                            o, PtzMoveLogs(movement, o), None, o.exc)
    /\ UNCHANGED <<stream, motion_status, rtsp_port, initPc, queries, portReply>>

PtzStop(i) ==
    /\ inv[i].pc = "wait"
    /\ SleepOver(inv[i])
    /\ \E o \in Outcomes({None}) :
        /\ inv' = [inv EXCEPT ![i] = AfterStop(o, inv[i])]
        /\ lastStep' = Step("ptz_stop", i, None, <<"ptz_stop_run">>, o, PtzStopLogs(o),
                            None, o.exc)
    /\ UNCHANGED <<stream, motion_status, rtsp_port, initPc, queries, portReply>>

\* The event loop's clock: one tick passes for every sleeping coroutine.
Tick ==
    /\ \E i \in Invocations : inv[i].pc = "wait" /\ ~SleepOver(inv[i])
    /\ inv' = [i \in Invocations |->
                 IF inv[i].pc = "wait" /\ ~SleepOver(inv[i])
                 THEN [inv[i] EXCEPT !.elapsed = @ + 1]
                 ELSE inv[i]]
    /\ lastStep' = Step("tick", 0, None, <<>>, NoOutcome, <<>>, None, None)
    /\ UNCHANGED <<stream, motion_status, rtsp_port, initPc, queries, portReply>>

Next ==
    \/ AddedGetMotion
    \/ AddedGetPort
    \/ CameraImage
    \/ StreamSource
    \/ EnableMotionDetection
    \/ DisableMotionDetection
    \/ \E i \in Invocations : PtzMove(i)
    \/ \E i \in Invocations : PtzStop(i)
    \/ Tick

Spec == Init /\ [][Next]_vars

\* The event loop runs every ready coroutine and its clock advances.
FairSpec ==
    /\ Spec
    /\ WF_vars(Tick)
    /\ \A i \in Invocations : WF_vars(PtzStop(i))
    /\ WF_vars(AddedGetMotion)
    /\ WF_vars(AddedGetPort)

\* ======================================================================
\* Properties
\* ======================================================================

\* The coroutine a ptz step belongs to, its movement and its session result.
StepInv == lastStep.inv
StepOutcome == lastStep.outcome

\* ---------------------------------------------------------------- C1
\* C1, the move step: an invocation for movement d calls exactly the move
\* method of d; after status 0 the coroutine is in its sleep with the stop
\* still to come, after any other result it has ended without a stop.
C1_MoveStep ==
    lastStep.op = "ptz_move" =>
        /\ lastStep.arg[1] \in Directions
        /\ lastStep.calls = <<"ptz_move_" \o lastStep.arg[1]>>
        /\ Ok(StepOutcome) => inv[StepInv].pc = "wait" /\ inv[StepInv].elapsed = 0
        /\ ~Ok(StepOutcome) => inv[StepInv].pc = "idle"

\* C1, the stop step: ptz_stop_run is called once, by a coroutine that was
\* sleeping and whose travel time has fully elapsed, and ends that coroutine.
C1_StopStep ==
    lastStep'.op = "ptz_stop" =>
        /\ inv[lastStep'.inv].pc = "wait"
        /\ inv[lastStep'.inv].elapsed >= inv[lastStep'.inv].travel
        /\ lastStep'.calls = <<"ptz_stop_run">>
        /\ inv'[lastStep'.inv].pc = "idle"

\* C1: no other step calls ptz_stop_run, a sleeping coroutine keeps the travel
\* time it was given, and it leaves its sleep only by its own stop step.
C1_StopOnlyThere ==
    /\ \A k \in DOMAIN lastStep'.calls :
        lastStep'.calls[k] = "ptz_stop_run" => lastStep'.op = "ptz_stop"
    /\ \A i \in Invocations :
        inv[i].pc = "wait" =>
            \/ /\ inv'[i].pc = "wait"
               /\ inv'[i].travel = inv[i].travel
               /\ inv'[i].elapsed >= inv[i].elapsed
            \/ lastStep'.op = "ptz_stop" /\ lastStep'.inv = i

\* C1: async_perform_ptz(d, t) issues exactly one move, the move of d; after
\* status 0 exactly one ptz_stop_run follows, not before t has elapsed; after
\* a nonzero status no ptz_stop_run is issued by that invocation.
C1_MoveThenStop ==
    /\ []C1_MoveStep
    /\ [][C1_StopStep /\ C1_StopOnlyThere]_vars

\* C1 witness: a stop was issued, and it returned status 0.
C1_Witness ==
    /\ lastStep.op = "ptz_stop"
    /\ lastStep.calls = <<"ptz_stop_run">>
    /\ Ok(StepOutcome)

\* ---------------------------------------------------------------- C2
\* C2: every invocation whose move returned status 0 (it is in its sleep)
\* eventually issues its own stop and is idle again, whatever the stop
\* returns and whatever else runs meanwhile; an invocation whose move failed
\* is idle right after the move and never slept.
C2_StopAlwaysComes ==
    /\ \A i \in Invocations :
        (inv[i].pc = "wait")
            ~> (lastStep.op = "ptz_stop" /\ lastStep.inv = i /\ inv[i] = IdleInv)
    /\ [](lastStep.op = "ptz_move" /\ Failed(StepOutcome) => inv[StepInv] = IdleInv)

\* C2 witness: a stop that returned a nonzero status, the coroutine idle again.
C2_Witness ==
    /\ lastStep.op = "ptz_stop"
    /\ Failed(StepOutcome)
    /\ inv[StepInv] = IdleInv

\* ---------------------------------------------------------------- C3
\* C3: a set-motion call that got status 0 leaves the flag equal to its
\* argument (TRUE for enable, FALSE for disable); one that got a nonzero
\* status or a TypeError leaves the flag as it was.
C3_SetMotionStep ==
    lastStep'.op \in {"enable_motion_detection", "disable_motion_detection"} =>
        /\ Ok(lastStep'.outcome) => motion_status' = lastStep'.arg[1]
        /\ ~Ok(lastStep'.outcome) => motion_status' = motion_status
        /\ lastStep'.arg[1] = (lastStep'.op = "enable_motion_detection")

C3_LastSuccessPersists == [][C3_SetMotionStep]_vars

\* C3 witness: a disable that got a nonzero status after a successful enable.
C3_Witness ==
    /\ lastStep.op = "disable_motion_detection"
    /\ Failed(StepOutcome)
    /\ motion_status = TRUE

\* ---------------------------------------------------------------- C4
\* The port a get_port_info reply reports: rtspPort, else mediaPort; nothing
\* when there was no status-0 reply or the reply carries no port.
ReportedPort(reply) ==
    IF reply = None THEN None
    ELSE IF ~reply[1].isDict THEN None
    ELSE IF reply[1].rtspPort \notin {None, Some(0)} THEN reply[1].rtspPort
    ELSE IF reply[1].mediaPort \notin {None, Some(0)} THEN reply[1].mediaPort
    ELSE None

ExpectedUrl ==
    IF ReportedPort(portReply) = None THEN None
    ELSE Some("rtsp://u:p@host:" \o ToString(ReportedPort(portReply)[1])
              \o "/video" \o stream)

\* C4: stream_source is null as long as no get_port_info of the activation
\* has reported a port, and afterwards it is
\* rtsp://{username}:{password}@{host}:{port}/video{stream} with the port
\* reported (554 and Main give rtsp://u:p@host:554/videoMain).
C4_StreamSource ==
    /\ StreamSourceResult = ExpectedUrl
    /\ lastStep.op = "stream_source" => lastStep.result = ExpectedUrl
    /\ lastStep.op = "stream_source" /\ rtsp_port = Some(554) /\ stream = "Main"
        => lastStep.result = Some("rtsp://u:p@host:554/videoMain")
    /\ queries.port = 0 => StreamSourceResult = None

\* C4 witness: stream_source called after the device reported port 554.
C4_Witness ==
    /\ lastStep.op = "stream_source"
    /\ portReply # None
    /\ lastStep.result = Some("rtsp://u:p@host:554/videoMain")

\* ---------------------------------------------------------------- C5
\* C5: whenever snap_picture_2 returned (status, payload), camera_image gives
\* null exactly when the status is nonzero, and the image when it is 0.
C5_ImageIffStatusZero ==
    lastStep.op = "camera_image" /\ StepOutcome.kind = "ret" =>
        /\ (lastStep.result = None) <=> (StepOutcome.status # 0)
        /\ StepOutcome.status = 0 =>
            lastStep.result = StepOutcome.payload /\ lastStep.result \in Images

\* C5 witness: a snapshot that failed although it carried a payload.
C5_Witness ==
    /\ lastStep.op = "camera_image"
    /\ Failed(StepOutcome)
    /\ StepOutcome.payload # None
    /\ lastStep.result = None

\* ---------------------------------------------------------------- C6
\* C6: no operation lets a fault out, whatever the session call did
\* (nonzero status, malformed payload, an exception of any type).
C6_NoFaultPropagates == lastStep.fault = None

\* ---------------------------------------------------------------- C7
\* C7: the activation issues get_motion_detect_config once and get_port_info
\* once; a failure of one query leaves the other query to be issued and to
\* fill its own field.
C7_BothQueriesOnce ==
    /\ queries.motion <= 1 /\ queries.port <= 1
    /\ initPc \in {"done", "fault"} => queries = [motion |-> 1, port |-> 1]
    /\ lastStep.op = "added_motion" /\ Failed(StepOutcome) =>
        initPc = "port" /\ rtsp_port = None
    /\ lastStep.op = "added_port" /\ Ok(StepOutcome) =>
        rtsp_port = PortOf(StepOutcome.payload)

\* ---------------------------------------------------------------- C8
\* C8: streaming is advertised only when a get_port_info with status 0 has
\* reported the port now cached; a populated port is never changed again
\* and the port is never queried a second time.
C8_Advertised ==
    SupportedFeatures # None =>
        /\ ReportedPort(portReply) # None
        /\ rtsp_port = ReportedPort(portReply)
        /\ queries.port = 1

C8_PortStable ==
    /\ Truthy(rtsp_port) => rtsp_port' = rtsp_port
    /\ queries.port >= 1 =>
        /\ queries'.port = queries.port
        /\ \A k \in DOMAIN lastStep'.calls : lastStep'.calls[k] # "get_port_info"

C8_StreamOnlyAfterPort ==
    /\ []C8_Advertised
    /\ [][C8_PortStable]_vars

\* C8 witness: the port is populated, streaming advertised, and a later
\* operation has run.
C8_Witness ==
    /\ SupportedFeatures = Some(SUPPORT_STREAM)
    /\ lastStep.op \in {"camera_image", "enable_motion_detection", "ptz_stop"}

\* ---------------------------------------------------------------- C9
HasErrorLog(fmt, movement) ==
    \E k \in DOMAIN lastStep.logs :
        lastStep.logs[k] = Log("error", fmt, movement, Name, Some(StepOutcome.status))

C9_Logs ==
    Failed(StepOutcome) =>
        /\ lastStep.op = "added_motion" =>
            HasErrorLog("Error getting motion detection status of %s: %s", None)
        /\ lastStep.op = "added_port" =>
            HasErrorLog("Error getting RTSP port of %s: %s", None)
        /\ lastStep.op = "ptz_move" =>
            HasErrorLog("Error moving %s '%s': %s", lastStep.arg)
        /\ lastStep.op = "ptz_stop" =>
            HasErrorLog("Error stopping movement on '%s': %s", None)
        /\ lastStep.op \in {"camera_image", "enable_motion_detection",
                            "disable_motion_detection"} => lastStep.logs = <<>>

\* C9 amended, the state: a call that returned a nonzero status changes
\* neither cached field.
C9_StateKept ==
    Failed(lastStep'.outcome) =>
        motion_status' = motion_status /\ rtsp_port' = rtsp_port

C10_CanStart ==
    \A i, j \in Invocations :
        i # j /\ inv[i].pc = "wait" /\ inv[j].pc = "idle" => ENABLED PtzMove(j)

C10_OwnStop ==
    \A i \in Invocations :
        inv[i].pc = "wait" /\ inv'[i].pc # "wait" =>
            /\ lastStep'.op = "ptz_stop" /\ lastStep'.inv = i
            /\ lastStep'.calls = <<"ptz_stop_run">>

C10_NotExcluded ==
    /\ []C10_CanStart
    /\ [][C10_OwnStop]_vars

\* C10 witness: the stop of one invocation is issued while another one is
\* between its successful move and its own stop.
C10_Witness ==
    /\ lastStep.op = "ptz_stop"
    /\ \E j \in Invocations : j # lastStep.inv /\ inv[j].pc = "wait"

====
